---- MODULE Spec2Model ----
(***************************************************************************)
(* A model of the treap (treap_non_random) and of the CVM distinct-count   *)
(* estimator (count_unique_cvm) built on it.                               *)
(*                                                                         *)
(* An Option<Box<TreapNode>> is a sequence of length 0 (None) or 1 (Some). *)
(* A TreapNode is a record [element, left, right]; an Element is a record  *)
(* [value, priority].  Every method that takes &mut self is an operator    *)
(* that returns the new contents of self (and the method's return value).  *)
(***************************************************************************)
EXTENDS Integers, Sequences, FiniteSets, TLC

\* Bounds of the model.
MaxValue == 4
MaxPriority == 2
MaxSize == 5
MaxToken == 3
MaxCapacity == 2
Resolution == 3
MaxSentenceDraw == 1
RngPeriod == 2

Values == 1..MaxValue
Priorities == 0..MaxPriority

\* Tokens fed to the estimator, and the draws of gen::<f32>(): the multiples
\* of 1/Resolution in [0, 1), counted in units of 1/Resolution.
Tokens == 1..MaxToken
Draws == 0..(Resolution - 1)

\* 1.0f32 in units of 1/Resolution.
One == Resolution

\* The state of the random source, as the position it has reached in its
\* stream of draws; the stream of a generator repeats after RngPeriod draws.
RngStates == 0..(RngPeriod - 1)

VARIABLES treap, p, max_size, rng, call, result, inserted, seen, pos, ref, order

vars == <<treap, p, max_size, rng, call, result, inserted, seen, pos, ref, order>>

\* The value of result while the last call was not estimate().
NoEstimate == [ok |-> FALSE, kind |-> "none", num |-> 0, den |-> 0]

\* self.rng.gen::<f32>() moves the random source one draw further.
Rng_gen(r) == (r + 1) % RngPeriod

----------------------------------------------------------------------------
(* Option, Ordering, Element                                               *)

None == <<>>

Some(x) == <<x>>

unwrap(o) == o[1]

cmp(a, b) == IF a < b THEN "Less" ELSE IF a = b THEN "Equal" ELSE "Greater"

Element_new(value, priority) == [value |-> value, priority |-> priority]

\* PartialEq::eq of Element.
Element_eq(self, other) ==
    self.value = other.value /\ self.priority = other.priority

\* cmp deciding by value first and by priority on equal values.
Element_cmp_value_first(self, other) ==
    LET c == cmp(self.value, other.value) IN
    IF c = "Less" THEN "Less"
    ELSE IF c = "Greater" THEN "Greater"
    ELSE cmp(self.priority, other.priority)

\* Ord::cmp of Element (src/treap).
Element_cmp(self, other) ==
    LET c == cmp(self.priority, other.priority) IN
    IF c = "Less" THEN "Less"
    ELSE IF c = "Greater" THEN "Greater"
    ELSE cmp(self.value, other.value)

\* PartialOrd::partial_cmp of Element in the first version (src/src);
\* partial_cmp of the values is Some(cmp) since T is Ord.
Element_partial_cmp(self, other) ==
    IF self.priority < other.priority THEN Some("Less")
    ELSE IF self.priority > other.priority THEN Some("Greater")
    ELSE Some(cmp(self.value, other.value))

\* Ord::cmp of Element in the first version: partial_cmp(other).unwrap().
Element_cmp_unwrap(self, other) == unwrap(Element_partial_cmp(self, other))

TreapNode_from(element) == [element |-> element, left |-> None, right |-> None]

----------------------------------------------------------------------------
(* TreapNode                                                               *)

\* rotate_right with the two subtrees of the promoted child exchanged.
rotate_right_mislinked(self) ==
    IF self.left = None THEN self
    ELSE LET pl == unwrap(self.left)
             old == [element |-> self.element, left |-> pl.left, right |-> self.right]
         IN  [element |-> pl.element, left |-> pl.right, right |-> Some(old)]

rotate_right(self) ==
    IF self.left = None THEN self
    ELSE LET pl == unwrap(self.left)
             old == [element |-> self.element, left |-> pl.right, right |-> self.right]
         IN  [element |-> pl.element, left |-> pl.left, right |-> Some(old)]

\* rotate_left leaving out the hand-over of the promoted child's left
\* subtree to the demoted node.
rotate_left_drops_inner(self) ==
    IF self.right = None THEN self
    ELSE LET q == unwrap(self.right)
             old == [element |-> self.element, left |-> self.left, right |-> None]
         IN  [element |-> q.element, left |-> Some(old), right |-> q.right]

rotate_left(self) ==
    IF self.right = None THEN self
    ELSE LET q == unwrap(self.right)
             old == [element |-> self.element, left |-> self.left, right |-> q.left]
         IN  [element |-> q.element, left |-> Some(old), right |-> q.right]

\* The rotations of the first version of the treap (src/treap).
right_rotate(self) ==
    IF self.left = None THEN self
    ELSE LET pl == unwrap(self.left)
             old == [element |-> self.element, left |-> pl.right, right |-> self.right]
         IN  [element |-> pl.element, left |-> pl.left, right |-> Some(old)]

left_rotate(self) ==
    IF self.right = None THEN self
    ELSE LET q == unwrap(self.right)
             old == [element |-> self.element, left |-> self.left, right |-> q.left]
         IN  [element |-> q.element, left |-> Some(old), right |-> q.right]

\* heap_check with the comparison turned around.
heap_check_reversed(self, n) ==
    IF n # None THEN unwrap(n).element.priority >= self.element.priority ELSE TRUE

heap_check(self, n) ==
    IF n # None THEN unwrap(n).element.priority <= self.element.priority ELSE TRUE

RECURSIVE insert_or_replace(_, _)

left_insert(self, node) ==
    IF self.left = None
    THEN [node |-> [self EXCEPT !.left = Some(node)], r |-> TRUE]
    ELSE LET res == insert_or_replace(unwrap(self.left), node)
         IN  [node |-> [self EXCEPT !.left = Some(res.node)], r |-> res.r]

right_insert(self, node) ==
    IF self.right = None
    THEN [node |-> [self EXCEPT !.right = Some(node)], r |-> TRUE]
    ELSE LET res == insert_or_replace(unwrap(self.right), node)
         IN  [node |-> [self EXCEPT !.right = Some(res.node)], r |-> res.r]

insert_or_replace(self, node) ==
    LET ord == cmp(self.element.value, node.element.value) IN
    IF ord = "Equal"
    THEN LET s == node
         IN  [node |-> IF ~heap_check(s, s.left) THEN rotate_right(s)
                       ELSE IF ~heap_check(s, s.right) THEN rotate_left(s)
                       ELSE s,
              r |-> FALSE]
    ELSE IF ord = "Greater"
    THEN LET res == left_insert(self, node)
         IN  [node |-> IF ~heap_check(res.node, res.node.left)
                       THEN rotate_right(res.node) ELSE res.node,
              r |-> res.r]
    ELSE LET res == right_insert(self, node)
         IN  [node |-> IF ~heap_check(res.node, res.node.right)
                       THEN rotate_left(res.node) ELSE res.node,
              r |-> res.r]

RECURSIVE TreapNode_get(_, _)

\* get descending to the wrong side.
TreapNode_get_mirrored(self, e) ==
    LET ord == cmp(self.element.value, e) IN
    IF ord = "Equal" THEN Some(self.element)
    ELSE IF ord = "Less"
    THEN IF self.left # None THEN TreapNode_get(unwrap(self.left), e) ELSE None
    ELSE IF self.right # None THEN TreapNode_get(unwrap(self.right), e) ELSE None

TreapNode_get(self, e) ==
    LET ord == cmp(self.element.value, e) IN
    IF ord = "Equal" THEN Some(self.element)
    ELSE IF ord = "Greater"
    THEN IF self.left # None THEN TreapNode_get(unwrap(self.left), e) ELSE None
    ELSE IF self.right # None THEN TreapNode_get(unwrap(self.right), e) ELSE None

RECURSIVE delete_child(_, _)

\* delete_child promoting the right child when both priorities are equal.
delete_child_ties_right(self, child) ==
    LET which == IF child = "Left" THEN unwrap(self.left) ELSE unwrap(self.right)
        done == which.left = None /\ which.right = None
        after == IF which.left = None
                 THEN delete_child(rotate_left(which), "Left")
                 ELSE IF which.right = None
                 THEN delete_child(rotate_right(which), "Right")
                 ELSE LET p_left == unwrap(which.left).element.priority
                          p_right == unwrap(which.right).element.priority
                      IN  IF p_left <= p_right
                          THEN delete_child(rotate_left(which), "Left")
                          ELSE delete_child(rotate_right(which), "Right")
    IN  IF done
        THEN IF child = "Left" THEN [self EXCEPT !.left = None]
                               ELSE [self EXCEPT !.right = None]
        ELSE IF child = "Left" THEN [self EXCEPT !.left = Some(after)]
                               ELSE [self EXCEPT !.right = Some(after)]

delete_child(self, child) ==
    LET which == IF child = "Left" THEN unwrap(self.left) ELSE unwrap(self.right)
        done == which.left = None /\ which.right = None
        after == IF which.left = None
                 THEN delete_child(rotate_left(which), "Left")
                 ELSE IF which.right = None
                 THEN delete_child(rotate_right(which), "Right")
                 ELSE LET p_left == unwrap(which.left).element.priority
                          p_right == unwrap(which.right).element.priority
                      IN  IF p_left < p_right
                          THEN delete_child(rotate_left(which), "Left")
                          ELSE delete_child(rotate_right(which), "Right")
    IN  IF done
        THEN IF child = "Left" THEN [self EXCEPT !.left = None]
                               ELSE [self EXCEPT !.right = None]
        ELSE IF child = "Left" THEN [self EXCEPT !.left = Some(after)]
                               ELSE [self EXCEPT !.right = Some(after)]

\* One pass through the body of delete_child following the target into the
\* child that was promoted instead of the side the target moved to.
delete_step_wrong_side(which) ==
    IF which.left = None
    THEN [node |-> rotate_left(which), child |-> "Right"]
    ELSE IF which.right = None
    THEN [node |-> rotate_right(which), child |-> "Left"]
    ELSE LET p_left == unwrap(which.left).element.priority
             p_right == unwrap(which.right).element.priority
         IN  IF p_left < p_right
             THEN [node |-> rotate_left(which), child |-> "Right"]
             ELSE [node |-> rotate_right(which), child |-> "Left"]

\* One pass through the body of delete_child for a target `which` that has a
\* child: the rotation applied to it, and the side on which delete_child is
\* called again.
delete_step(which) ==
    IF which.left = None
    THEN [node |-> rotate_left(which), child |-> "Left"]
    ELSE IF which.right = None
    THEN [node |-> rotate_right(which), child |-> "Right"]
    ELSE LET p_left == unwrap(which.left).element.priority
             p_right == unwrap(which.right).element.priority
         IN  IF p_left < p_right
             THEN [node |-> rotate_left(which), child |-> "Left"]
             ELSE [node |-> rotate_right(which), child |-> "Right"]

RECURSIVE TreapNode_delete(_, _)

\* delete reporting a deletion when the search runs off the tree.
TreapNode_delete_reports_absent(self, e) ==
    LET ord == cmp(self.element.value, e) IN
    IF ord = "Equal"
    THEN [node |-> self, deleted |-> FALSE, panic |-> TRUE]
    ELSE IF ord = "Greater"
    THEN IF self.left # None
         THEN IF unwrap(self.left).element.value = e
              THEN [node |-> delete_child(self, "Left"), deleted |-> TRUE, panic |-> FALSE]
              ELSE LET res == TreapNode_delete(unwrap(self.left), e)
                   IN  [node |-> [self EXCEPT !.left = Some(res.node)],
                        deleted |-> res.deleted, panic |-> res.panic]
         ELSE [node |-> self, deleted |-> TRUE, panic |-> FALSE]
    ELSE IF self.right # None
         THEN IF unwrap(self.right).element.value = e
              THEN [node |-> delete_child(self, "Right"), deleted |-> TRUE, panic |-> FALSE]
              ELSE LET res == TreapNode_delete(unwrap(self.right), e)
                   IN  [node |-> [self EXCEPT !.right = Some(res.node)],
                        deleted |-> res.deleted, panic |-> res.panic]
         ELSE [node |-> self, deleted |-> TRUE, panic |-> FALSE]

TreapNode_delete(self, e) ==
    LET ord == cmp(self.element.value, e) IN
    IF ord = "Equal"
    THEN [node |-> self, deleted |-> FALSE, panic |-> TRUE]
    ELSE IF ord = "Greater"
    THEN IF self.left # None
         THEN IF unwrap(self.left).element.value = e
              THEN [node |-> delete_child(self, "Left"), deleted |-> TRUE, panic |-> FALSE]
              ELSE LET res == TreapNode_delete(unwrap(self.left), e)
                   IN  [node |-> [self EXCEPT !.left = Some(res.node)],
                        deleted |-> res.deleted, panic |-> res.panic]
         ELSE [node |-> self, deleted |-> FALSE, panic |-> FALSE]
    ELSE IF self.right # None
         THEN IF unwrap(self.right).element.value = e
              THEN [node |-> delete_child(self, "Right"), deleted |-> TRUE, panic |-> FALSE]
              ELSE LET res == TreapNode_delete(unwrap(self.right), e)
                   IN  [node |-> [self EXCEPT !.right = Some(res.node)],
                        deleted |-> res.deleted, panic |-> res.panic]
         ELSE [node |-> self, deleted |-> FALSE, panic |-> FALSE]

RECURSIVE maintains_heap(_)

maintains_heap(self) ==
    LET left_test == IF self.left # None
                     THEN unwrap(self.left).element.priority <= self.element.priority
                          /\ maintains_heap(unwrap(self.left))
                     ELSE TRUE
        right_test == IF self.right # None
                      THEN unwrap(self.right).element.priority <= self.element.priority
                           /\ maintains_heap(unwrap(self.right))
                      ELSE TRUE
    IN  left_test /\ right_test

----------------------------------------------------------------------------
(* Treap: a record [root, size]                                            *)

Treap_new == [root |-> None, size |-> 0]

\* reset dropping the nodes but keeping the count.
Treap_reset_keeps_size(self) == [root |-> None, size |-> self.size]

Treap_reset(self) == [root |-> None, size |-> 0]

\* insert reading the created/replaced flag the wrong way round.
Treap_insert_inverted_flag(self, element) ==
    IF self.root = None
    THEN [root |-> Some(TreapNode_from(element)), size |-> 1]
    ELSE LET res == insert_or_replace(unwrap(self.root), TreapNode_from(element))
         IN  [root |-> Some(res.node),
              size |-> IF res.r THEN self.size ELSE self.size + 1]

Treap_insert(self, element) ==
    IF self.root = None
    THEN [root |-> Some(TreapNode_from(element)), size |-> 1]
    ELSE LET res == insert_or_replace(unwrap(self.root), TreapNode_from(element))
         IN  [root |-> Some(res.node),
              size |-> IF res.r THEN self.size + 1 ELSE self.size]

Treap_get_max(self) ==
    IF self.root # None THEN Some(unwrap(self.root).element) ELSE None

Treap_get(self, e) ==
    IF self.root # None THEN TreapNode_get(unwrap(self.root), e) ELSE None

Treap_size(self) == self.size

Treap_maintains_heap(self) ==
    IF self.root # None THEN maintains_heap(unwrap(self.root)) ELSE TRUE

\* delete promoting the root's lower-priority child.
Treap_delete_lower_child(self, e) ==
    IF self.root = None
    THEN [treap |-> self, panic |-> FALSE]
    ELSE LET r == unwrap(self.root) IN
         IF r.element.value = e /\ r.left = None /\ r.right = None
         THEN [treap |-> Treap_reset(self), panic |-> FALSE]
         ELSE LET rotated ==
                      IF r.element.value = e
                      THEN IF r.left = None /\ r.right # None THEN rotate_left(r)
                           ELSE IF r.right = None /\ r.left # None THEN rotate_right(r)
                           ELSE LET p_left == unwrap(r.left).element.priority
                                    p_right == unwrap(r.right).element.priority
                                IN  IF p_left > p_right THEN rotate_left(r)
                                    ELSE rotate_right(r)
                      ELSE r
                  res == TreapNode_delete(rotated, e)
              IN  [treap |-> [root |-> Some(res.node),
                              size |-> IF res.deleted THEN self.size - 1 ELSE self.size],
                   panic |-> res.panic]

\* delete recursing into a root that holds the value without rotating it away.
Treap_delete_unrotated_root(self, e) ==
    IF self.root = None
    THEN [treap |-> self, panic |-> FALSE]
    ELSE LET r == unwrap(self.root) IN
         IF r.element.value = e /\ r.left = None /\ r.right = None
         THEN [treap |-> Treap_reset(self), panic |-> FALSE]
         ELSE LET rotated ==
                      IF r.element.value = e
                      THEN IF r.left = None /\ r.right # None THEN r
                           ELSE IF r.right = None /\ r.left # None THEN rotate_right(r)
                           ELSE LET p_left == unwrap(r.left).element.priority
                                    p_right == unwrap(r.right).element.priority
                                IN  IF p_left < p_right THEN rotate_left(r)
                                    ELSE rotate_right(r)
                      ELSE r
                  res == TreapNode_delete(rotated, e)
              IN  [treap |-> [root |-> Some(res.node),
                              size |-> IF res.deleted THEN self.size - 1 ELSE self.size],
                   panic |-> res.panic]

\* delete never decrementing the count.
Treap_delete_keeps_size(self, e) ==
    IF self.root = None
    THEN [treap |-> self, panic |-> FALSE]
    ELSE LET r == unwrap(self.root) IN
         IF r.element.value = e /\ r.left = None /\ r.right = None
         THEN [treap |-> Treap_reset(self), panic |-> FALSE]
         ELSE LET rotated ==
                      IF r.element.value = e
                      THEN IF r.left = None /\ r.right # None THEN rotate_left(r)
                           ELSE IF r.right = None /\ r.left # None THEN rotate_right(r)
                           ELSE LET p_left == unwrap(r.left).element.priority
                                    p_right == unwrap(r.right).element.priority
                                IN  IF p_left < p_right THEN rotate_left(r)
                                    ELSE rotate_right(r)
                      ELSE r
                  res == TreapNode_delete(rotated, e)
              IN  [treap |-> [root |-> Some(res.node),
                              size |-> self.size],
                   panic |-> res.panic]

\* The result carries the treap after the call and whether the call panicked.
Treap_delete(self, e) ==
    IF self.root = None
    THEN [treap |-> self, panic |-> FALSE]
    ELSE LET r == unwrap(self.root) IN
         IF r.element.value = e /\ r.left = None /\ r.right = None
         THEN [treap |-> Treap_reset(self), panic |-> FALSE]
         ELSE LET rotated ==
                      IF r.element.value = e
                      THEN IF r.left = None /\ r.right # None THEN rotate_left(r)
                           ELSE IF r.right = None /\ r.left # None THEN rotate_right(r)
                           ELSE LET p_left == unwrap(r.left).element.priority
                                    p_right == unwrap(r.right).element.priority
                                IN  IF p_left < p_right THEN rotate_left(r)
                                    ELSE rotate_right(r)
                      ELSE r
                  res == TreapNode_delete(rotated, e)
              IN  [treap |-> [root |-> Some(res.node),
                              size |-> IF res.deleted THEN self.size - 1 ELSE self.size],
                   panic |-> res.panic]

----------------------------------------------------------------------------
(* The treap driven through its public API                                 *)

Call(op, value, priority, panic) ==
    [op |-> op, value |-> value, priority |-> priority,
     pre |-> treap, pre_p |-> p, pre_max_size |-> max_size, pre_rng |-> rng,
     panic |-> panic]

InitTreap ==
    /\ treap = Treap_new
    /\ p = 0
    /\ max_size = 0
    /\ rng = 0
    /\ result = NoEstimate
    /\ inserted = {}
    /\ seen = {}
    /\ pos = 1
    /\ ref = <<>>
    /\ order = <<>>
    /\ call = [op |-> "new", value |-> 0, priority |-> 0,
               pre |-> Treap_new, pre_p |-> 0, pre_max_size |-> 0,
               pre_rng |-> 0, panic |-> FALSE]

Insert(v, pr) ==
    /\ ~call.panic
    /\ treap.size < MaxSize
    /\ treap' = Treap_insert(treap, Element_new(v, pr))
    /\ call' = Call("insert", v, pr, FALSE)
    /\ UNCHANGED <<p, max_size, rng, result, inserted, seen, pos, ref, order>>

Delete(v) ==
    /\ ~call.panic
    /\ LET res == Treap_delete(treap, v)
       IN  /\ treap' = res.treap
           /\ call' = Call("delete", v, 0, res.panic)
    /\ UNCHANGED <<p, max_size, rng, result, inserted, seen, pos, ref, order>>

Reset ==
    /\ ~call.panic
    /\ treap' = Treap_reset(treap)
    /\ call' = Call("reset", 0, 0, FALSE)
    /\ UNCHANGED <<p, max_size, rng, result, inserted, seen, pos, ref, order>>

NextTreap ==
    \/ \E v \in Values, pr \in Priorities : Insert(v, pr)
    \/ \E v \in Values : Delete(v)
    \/ Reset

SpecTreap == InitTreap /\ [][NextTreap]_vars

----------------------------------------------------------------------------
(* Inserting elements with pairwise distinct values into an empty treap    *)

InitRoundTrip == InitTreap

InsertNew(v, pr) ==
    /\ v \notin {e.value : e \in inserted}
    /\ treap' = Treap_insert(treap, Element_new(v, pr))
    /\ inserted' = inserted \cup {Element_new(v, pr)}
    /\ call' = Call("insert", v, pr, FALSE)
    /\ UNCHANGED <<p, max_size, rng, result, seen, pos, ref, order>>

Restart ==
    /\ treap' = Treap_reset(treap)
    /\ inserted' = {}
    /\ call' = Call("reset", 0, 0, FALSE)
    /\ UNCHANGED <<p, max_size, rng, result, seen, pos, ref, order>>

NextRoundTrip ==
    \/ \E v \in Values, pr \in Priorities : InsertNew(v, pr)
    \/ Restart

SpecRoundTrip == InitRoundTrip /\ [][NextRoundTrip]_vars

----------------------------------------------------------------------------
(* Elements compared with one another                                      *)

AllElements == {Element_new(v, pr) : v \in Values, pr \in Priorities}

\* The outcome of comparing three elements with one another.
Comparison(a, b, c) ==
    [a |-> a, b |-> b, c |-> c,
     ab |-> Element_cmp(a, b), ba |-> Element_cmp(b, a),
     bc |-> Element_cmp(b, c), ac |-> Element_cmp(a, c),
     eq_ab |-> Element_eq(a, b), eq_ba |-> Element_eq(b, a),
     partial_ab |-> Element_partial_cmp(a, b),
     unwrap_ab |-> Element_cmp_unwrap(a, b)]

InitElementOrder ==
    /\ treap = Treap_new
    /\ p = 0
    /\ max_size = 0
    /\ rng = 0
    /\ result = NoEstimate
    /\ inserted = {}
    /\ seen = {}
    /\ pos = 1
    /\ ref = <<>>
    /\ \E a \in AllElements : order = Comparison(a, a, a)
    /\ call = [op |-> "new", value |-> 0, priority |-> 0,
               pre |-> Treap_new, pre_p |-> 0, pre_max_size |-> 0,
               pre_rng |-> 0, panic |-> FALSE]

\* The last two elements compared are compared with a further element e.
Compare(e) ==
    /\ order' = Comparison(order.b, order.c, e)
    /\ UNCHANGED <<treap, p, max_size, rng, call, result, inserted, seen, pos, ref>>

NextElementOrder == \E e \in AllElements : Compare(e)

SpecElementOrder == InitElementOrder /\ [][NextElementOrder]_vars

----------------------------------------------------------------------------
(* CountUnique: a record [treap, rng, max_size, p]                         *)

\* The estimator held in the state variables.
CountUnique == [treap |-> treap, rng |-> rng, max_size |-> max_size, p |-> p]

\* new accepting a capacity of zero.
CountUnique_new_accepts_zero(sz) ==
    IF sz < 0
    THEN [treap |-> Treap_new, max_size |-> sz, p |-> One, panic |-> TRUE]
    ELSE [treap |-> Treap_new, max_size |-> sz, p |-> One, panic |-> FALSE]

\* The result carries whether construction panicked.
CountUnique_new(sz) ==
    IF sz < 1
    THEN [treap |-> Treap_new, max_size |-> sz, p |-> One, panic |-> TRUE]
    ELSE [treap |-> Treap_new, max_size |-> sz, p |-> One, panic |-> FALSE]

\* add_token admitting a token while the reservoir is already full.
add_token_no_room_check(self, t, u) ==
    LET d == Treap_delete(self.treap, t) IN
    IF d.panic
    THEN [treap |-> d.treap, max_size |-> self.max_size, p |-> self.p, panic |-> TRUE]
    ELSE IF u < self.p
    THEN IF Treap_size(d.treap) <= self.max_size
         THEN [treap |-> Treap_insert(d.treap, Element_new(t, u)),
               max_size |-> self.max_size, p |-> self.p, panic |-> FALSE]
         ELSE LET m == Treap_get_max(d.treap) IN
              IF m = None
              THEN [treap |-> d.treap, max_size |-> self.max_size, p |-> self.p,
                    panic |-> TRUE]
              ELSE LET m_priority == unwrap(m).priority
                       m_value == unwrap(m).value
                   IN  IF m_priority > u
                       THEN [treap |-> d.treap, max_size |-> self.max_size,
                             p |-> u, panic |-> FALSE]
                       ELSE LET d2 == Treap_delete(d.treap, m_value)
                            IN  [treap |-> Treap_insert(d2.treap, Element_new(t, u)),
                                 max_size |-> self.max_size, p |-> m_priority,
                                 panic |-> d2.panic]
    ELSE [treap |-> d.treap, max_size |-> self.max_size, p |-> self.p, panic |-> FALSE]

\* add_token shrinking the threshold to the maximum's priority instead of u.
add_token_swapped_threshold(self, t, u) ==
    LET d == Treap_delete(self.treap, t) IN
    IF d.panic
    THEN [treap |-> d.treap, max_size |-> self.max_size, p |-> self.p, panic |-> TRUE]
    ELSE IF u < self.p
    THEN IF Treap_size(d.treap) < self.max_size
         THEN [treap |-> Treap_insert(d.treap, Element_new(t, u)),
               max_size |-> self.max_size, p |-> self.p, panic |-> FALSE]
         ELSE LET m == Treap_get_max(d.treap) IN
              IF m = None
              THEN [treap |-> d.treap, max_size |-> self.max_size, p |-> self.p,
                    panic |-> TRUE]
              ELSE LET m_priority == unwrap(m).priority
                       m_value == unwrap(m).value
                   IN  IF m_priority > u
                       THEN [treap |-> d.treap, max_size |-> self.max_size,
                             p |-> m_priority, panic |-> FALSE]
                       ELSE LET d2 == Treap_delete(d.treap, m_value)
                            IN  [treap |-> Treap_insert(d2.treap, Element_new(t, u)),
                                 max_size |-> self.max_size, p |-> m_priority,
                                 panic |-> d2.panic]
    ELSE [treap |-> d.treap, max_size |-> self.max_size, p |-> self.p, panic |-> FALSE]

\* add_token admitting a draw equal to the threshold.
add_token_admits_at_threshold(self, t, u) ==
    LET d == Treap_delete(self.treap, t) IN
    IF d.panic
    THEN [treap |-> d.treap, max_size |-> self.max_size, p |-> self.p, panic |-> TRUE]
    ELSE IF u <= self.p
    THEN IF Treap_size(d.treap) < self.max_size
         THEN [treap |-> Treap_insert(d.treap, Element_new(t, u)),
               max_size |-> self.max_size, p |-> self.p, panic |-> FALSE]
         ELSE LET m == Treap_get_max(d.treap) IN
              IF m = None
              THEN [treap |-> d.treap, max_size |-> self.max_size, p |-> self.p,
                    panic |-> TRUE]
              ELSE LET m_priority == unwrap(m).priority
                       m_value == unwrap(m).value
                   IN  IF m_priority > u
                       THEN [treap |-> d.treap, max_size |-> self.max_size,
                             p |-> u, panic |-> FALSE]
                       ELSE LET d2 == Treap_delete(d.treap, m_value)
                            IN  [treap |-> Treap_insert(d2.treap, Element_new(t, u)),
                                 max_size |-> self.max_size, p |-> m_priority,
                                 panic |-> d2.panic]
    ELSE [treap |-> d.treap, max_size |-> self.max_size, p |-> self.p, panic |-> FALSE]

\* add_token without the removal of the token's stale entry.
add_token_no_stale_removal(self, t, u) ==
    LET d == [treap |-> self.treap, panic |-> FALSE] IN
    IF d.panic
    THEN [treap |-> d.treap, max_size |-> self.max_size, p |-> self.p, panic |-> TRUE]
    ELSE IF u < self.p
    THEN IF Treap_size(d.treap) < self.max_size
         THEN [treap |-> Treap_insert(d.treap, Element_new(t, u)),
               max_size |-> self.max_size, p |-> self.p, panic |-> FALSE]
         ELSE LET m == Treap_get_max(d.treap) IN
              IF m = None
              THEN [treap |-> d.treap, max_size |-> self.max_size, p |-> self.p,
                    panic |-> TRUE]
              ELSE LET m_priority == unwrap(m).priority
                       m_value == unwrap(m).value
                   IN  IF m_priority > u
                       THEN [treap |-> d.treap, max_size |-> self.max_size,
                             p |-> u, panic |-> FALSE]
                       ELSE LET d2 == Treap_delete(d.treap, m_value)
                            IN  [treap |-> Treap_insert(d2.treap, Element_new(t, u)),
                                 max_size |-> self.max_size, p |-> m_priority,
                                 panic |-> d2.panic]
    ELSE [treap |-> d.treap, max_size |-> self.max_size, p |-> self.p, panic |-> FALSE]

\* add_token removing the stale entry only for an admitted draw.
add_token_late_removal(self, t, u) ==
    LET d == Treap_delete(self.treap, t) IN
    IF d.panic
    THEN [treap |-> d.treap, max_size |-> self.max_size, p |-> self.p, panic |-> TRUE]
    ELSE IF u < self.p
    THEN IF Treap_size(d.treap) < self.max_size
         THEN [treap |-> Treap_insert(d.treap, Element_new(t, u)),
               max_size |-> self.max_size, p |-> self.p, panic |-> FALSE]
         ELSE LET m == Treap_get_max(d.treap) IN
              IF m = None
              THEN [treap |-> d.treap, max_size |-> self.max_size, p |-> self.p,
                    panic |-> TRUE]
              ELSE LET m_priority == unwrap(m).priority
                       m_value == unwrap(m).value
                   IN  IF m_priority > u
                       THEN [treap |-> d.treap, max_size |-> self.max_size,
                             p |-> u, panic |-> FALSE]
                       ELSE LET d2 == Treap_delete(d.treap, m_value)
                            IN  [treap |-> Treap_insert(d2.treap, Element_new(t, u)),
                                 max_size |-> self.max_size, p |-> m_priority,
                                 panic |-> d2.panic]
    ELSE [treap |-> self.treap, max_size |-> self.max_size, p |-> self.p, panic |-> FALSE]

\* add_token setting the threshold to the draw after an eviction.
add_token_evict_sets_draw(self, t, u) ==
    LET d == Treap_delete(self.treap, t) IN
    IF d.panic
    THEN [treap |-> d.treap, max_size |-> self.max_size, p |-> self.p, panic |-> TRUE]
    ELSE IF u < self.p
    THEN IF Treap_size(d.treap) < self.max_size
         THEN [treap |-> Treap_insert(d.treap, Element_new(t, u)),
               max_size |-> self.max_size, p |-> self.p, panic |-> FALSE]
         ELSE LET m == Treap_get_max(d.treap) IN
              IF m = None
              THEN [treap |-> d.treap, max_size |-> self.max_size, p |-> self.p,
                    panic |-> TRUE]
              ELSE LET m_priority == unwrap(m).priority
                       m_value == unwrap(m).value
                   IN  IF m_priority > u
                       THEN [treap |-> d.treap, max_size |-> self.max_size,
                             p |-> u, panic |-> FALSE]
                       ELSE LET d2 == Treap_delete(d.treap, m_value)
                            IN  [treap |-> Treap_insert(d2.treap, Element_new(t, u)),
                                 max_size |-> self.max_size, p |-> u,
                                 panic |-> d2.panic]
    ELSE [treap |-> d.treap, max_size |-> self.max_size, p |-> self.p, panic |-> FALSE]

\* add_token evicting the maximum without storing the new token.
add_token_evict_without_insert(self, t, u) ==
    LET d == Treap_delete(self.treap, t) IN
    IF d.panic
    THEN [treap |-> d.treap, max_size |-> self.max_size, p |-> self.p, panic |-> TRUE]
    ELSE IF u < self.p
    THEN IF Treap_size(d.treap) < self.max_size
         THEN [treap |-> Treap_insert(d.treap, Element_new(t, u)),
               max_size |-> self.max_size, p |-> self.p, panic |-> FALSE]
         ELSE LET m == Treap_get_max(d.treap) IN
              IF m = None
              THEN [treap |-> d.treap, max_size |-> self.max_size, p |-> self.p,
                    panic |-> TRUE]
              ELSE LET m_priority == unwrap(m).priority
                       m_value == unwrap(m).value
                   IN  IF m_priority > u
                       THEN [treap |-> d.treap, max_size |-> self.max_size,
                             p |-> u, panic |-> FALSE]
                       ELSE LET d2 == Treap_delete(d.treap, m_value)
                            IN  [treap |-> d2.treap,
                                 max_size |-> self.max_size, p |-> m_priority,
                                 panic |-> d2.panic]
    ELSE [treap |-> d.treap, max_size |-> self.max_size, p |-> self.p, panic |-> FALSE]

\* add_token with the draw u = self.rng.gen::<f32>() as a parameter.
add_token(self, t, u) ==
    LET d == Treap_delete(self.treap, t) IN
    IF d.panic
    THEN [treap |-> d.treap, max_size |-> self.max_size, p |-> self.p, panic |-> TRUE]
    ELSE IF u < self.p
    THEN IF Treap_size(d.treap) < self.max_size
         THEN [treap |-> Treap_insert(d.treap, Element_new(t, u)),
               max_size |-> self.max_size, p |-> self.p, panic |-> FALSE]
         ELSE LET m == Treap_get_max(d.treap) IN
              IF m = None
              THEN [treap |-> d.treap, max_size |-> self.max_size, p |-> self.p,
                    panic |-> TRUE]
              ELSE LET m_priority == unwrap(m).priority
                       m_value == unwrap(m).value
                   IN  IF m_priority > u
                       THEN [treap |-> d.treap, max_size |-> self.max_size,
                             p |-> u, panic |-> FALSE]
                       ELSE LET d2 == Treap_delete(d.treap, m_value)
                            IN  [treap |-> Treap_insert(d2.treap, Element_new(t, u)),
                                 max_size |-> self.max_size, p |-> m_priority,
                                 panic |-> d2.panic]
    ELSE [treap |-> d.treap, max_size |-> self.max_size, p |-> self.p, panic |-> FALSE]


\* f64::value_from(usize): the conversion is exact and succeeds for every
\* size below 2^53, which covers every size a bounded reservoir reaches.
value_from(n) == [ok |-> TRUE, value |-> n]

\* f / p in f64, with p counted in units of 1/Resolution: a finite quotient
\* num / den, +infinity for a positive f over zero, NaN for zero over zero.
f64_div(f, pp) ==
    IF pp = 0
    THEN IF f = 0 THEN [ok |-> TRUE, kind |-> "nan", num |-> 0, den |-> 0]
                  ELSE [ok |-> TRUE, kind |-> "inf", num |-> 1, den |-> 0]
    ELSE [ok |-> TRUE, kind |-> "finite", num |-> f * One, den |-> pp]

\* estimate dividing the threshold by the size.
CountUnique_estimate_inverted(self) ==
    LET f == value_from(Treap_size(self.treap)) IN
    IF ~f.ok
    THEN [ok |-> FALSE, kind |-> "overflow", num |-> 0, den |-> 0]
    ELSE IF f.value = 0
    THEN IF self.p = 0 THEN [ok |-> TRUE, kind |-> "nan", num |-> 0, den |-> 0]
                       ELSE [ok |-> TRUE, kind |-> "inf", num |-> 1, den |-> 0]
    ELSE [ok |-> TRUE, kind |-> "finite", num |-> self.p, den |-> f.value * One]

\* estimate multiplying the size by the threshold.
CountUnique_estimate_product(self) ==
    LET f == value_from(Treap_size(self.treap)) IN
    IF ~f.ok
    THEN [ok |-> FALSE, kind |-> "overflow", num |-> 0, den |-> 0]
    ELSE [ok |-> TRUE, kind |-> "finite", num |-> f.value * self.p, den |-> One]

CountUnique_estimate(self) ==
    LET f == value_from(Treap_size(self.treap)) IN
    IF ~f.ok
    THEN [ok |-> FALSE, kind |-> "overflow", num |-> 0, den |-> 0]
    ELSE f64_div(f.value, self.p)

\* reset leaving the threshold where the last run left it.
CountUnique_reset_keeps_threshold(self) ==
    [treap |-> Treap_reset(self.treap), rng |-> self.rng,
     max_size |-> self.max_size, p |-> self.p]

\* reset putting the random source back to the start of its stream.
CountUnique_reset_reseeds(self) ==
    [treap |-> Treap_reset(self.treap), rng |-> 0,
     max_size |-> self.max_size, p |-> One]

CountUnique_reset(self) ==
    [treap |-> Treap_reset(self.treap), rng |-> self.rng,
     max_size |-> self.max_size, p |-> One]

----------------------------------------------------------------------------
(* The estimator driven through its public API                             *)

InitCVM ==
    \E r \in RngStates, sz \in 0..MaxCapacity :
        LET c == CountUnique_new(sz) IN
        /\ treap = c.treap
        /\ p = c.p
        /\ max_size = c.max_size
        /\ rng = r
        /\ result = NoEstimate
        /\ inserted = {}
        /\ seen = {}
        /\ pos = 1
        /\ ref = <<>>
        /\ order = <<>>
        /\ call = [op |-> "new", value |-> sz, priority |-> 0,
                   pre |-> Treap_new, pre_p |-> One, pre_max_size |-> sz,
                   pre_rng |-> r, panic |-> c.panic]

AddToken(t, u) ==
    /\ ~call.panic
    /\ LET c == add_token(CountUnique, t, u)
       IN  /\ treap' = c.treap
           /\ p' = c.p
           /\ max_size' = c.max_size
           /\ rng' = Rng_gen(rng)
           /\ call' = Call("add_token", t, u, c.panic)
    /\ result' = NoEstimate
    /\ UNCHANGED <<inserted, seen, pos, ref, order>>

CVMReset ==
    /\ ~call.panic
    /\ LET c == CountUnique_reset(CountUnique)
       IN  /\ treap' = c.treap
           /\ p' = c.p
           /\ max_size' = c.max_size
           /\ rng' = c.rng
    /\ call' = Call("reset", 0, 0, FALSE)
    /\ result' = NoEstimate
    /\ UNCHANGED <<inserted, seen, pos, ref, order>>

\* estimate(&self): result receives the returned value.
Estimate ==
    /\ ~call.panic
    /\ result' = CountUnique_estimate(CountUnique)
    /\ call' = Call("estimate", 0, 0, FALSE)
    /\ UNCHANGED <<treap, p, max_size, rng, inserted, seen, pos, ref, order>>

NextCVM ==
    \/ \E t \in Tokens, u \in Draws : AddToken(t, u)
    \/ Estimate
    \/ CVMReset

SpecCVM == InitCVM /\ [][NextCVM]_vars

----------------------------------------------------------------------------
(* A run replayed on a reference estimator                                 *)

\* ref is a second estimator built by new() with the same capacity each time
\* the first one starts a run, and given the same tokens and draws; shrunk
\* tells that the run of the first one began with the reset of an estimator
\* whose threshold had shrunk.
InitReplay ==
    \E r \in RngStates, sz \in 1..MaxCapacity :
        LET c == CountUnique_new(sz) IN
        /\ treap = c.treap
        /\ p = c.p
        /\ max_size = c.max_size
        /\ rng = r
        /\ result = NoEstimate
        /\ inserted = {}
        /\ seen = {}
        /\ pos = 1
        /\ ref = [treap |-> c.treap, max_size |-> c.max_size, p |-> c.p,
                  shrunk |-> FALSE]
        /\ order = <<>>
        /\ call = [op |-> "new", value |-> sz, priority |-> 0,
                   pre |-> Treap_new, pre_p |-> One, pre_max_size |-> sz,
                   pre_rng |-> r, panic |-> c.panic]

ReplayToken(t, u) ==
    /\ ~call.panic
    /\ LET c == add_token(CountUnique, t, u)
           d == add_token(ref, t, u)
       IN  /\ treap' = c.treap
           /\ p' = c.p
           /\ max_size' = c.max_size
           /\ rng' = Rng_gen(rng)
           /\ call' = Call("add_token", t, u, c.panic)
           /\ ref' = [ref EXCEPT !.treap = d.treap, !.max_size = d.max_size,
                                 !.p = d.p]
    /\ result' = NoEstimate
    /\ UNCHANGED <<inserted, seen, pos, order>>

ReplayReset ==
    /\ ~call.panic
    /\ LET c == CountUnique_reset(CountUnique)
           d == CountUnique_new(max_size)
       IN  /\ treap' = c.treap
           /\ p' = c.p
           /\ max_size' = c.max_size
           /\ rng' = c.rng
           /\ ref' = [treap |-> d.treap, max_size |-> d.max_size, p |-> d.p,
                      shrunk |-> (p < One)]
    /\ call' = Call("reset", 0, 0, FALSE)
    /\ result' = NoEstimate
    /\ UNCHANGED <<inserted, seen, pos, order>>

NextReplay ==
    \/ \E t \in Tokens, u \in Draws : ReplayToken(t, u)
    \/ ReplayReset

SpecReplay == InitReplay /\ [][NextReplay]_vars

----------------------------------------------------------------------------
(* Runs whose tokens are pairwise distinct                                 *)

InitDistinct == InitCVM

\* add_token of a token the run has not been given before; seen holds the
\* tokens of the run.
AddDistinctToken(t, u) ==
    /\ ~call.panic
    /\ t \notin seen
    /\ LET c == add_token(CountUnique, t, u)
       IN  /\ treap' = c.treap
           /\ p' = c.p
           /\ max_size' = c.max_size
           /\ rng' = Rng_gen(rng)
           /\ call' = Call("add_token", t, u, c.panic)
    /\ seen' = seen \cup {t}
    /\ result' = NoEstimate
    /\ UNCHANGED <<inserted, pos, ref, order>>

\* reset() starts the next run.
DistinctReset ==
    /\ ~call.panic
    /\ LET c == CountUnique_reset(CountUnique)
       IN  /\ treap' = c.treap
           /\ p' = c.p
           /\ max_size' = c.max_size
           /\ rng' = c.rng
    /\ call' = Call("reset", 0, 0, FALSE)
    /\ seen' = {}
    /\ result' = NoEstimate
    /\ UNCHANGED <<inserted, pos, ref, order>>

NextDistinct ==
    \/ \E t \in Tokens, u \in Draws : AddDistinctToken(t, u)
    \/ DistinctReset

SpecDistinct == InitDistinct /\ [][NextDistinct]_vars

----------------------------------------------------------------------------
(* Runs whose stream holds at most max_size distinct tokens                *)

InitWithinCapacity == InitCVM

AddSeenToken(t, u) ==
    /\ ~call.panic
    /\ Cardinality(seen \cup {t}) <= max_size
    /\ LET c == add_token(CountUnique, t, u)
       IN  /\ treap' = c.treap
           /\ p' = c.p
           /\ max_size' = c.max_size
           /\ rng' = Rng_gen(rng)
           /\ call' = Call("add_token", t, u, c.panic)
    /\ seen' = seen \cup {t}
    /\ result' = NoEstimate
    /\ UNCHANGED <<inserted, pos, ref, order>>

ResetRun ==
    /\ ~call.panic
    /\ LET c == CountUnique_reset(CountUnique)
       IN  /\ treap' = c.treap
           /\ p' = c.p
           /\ max_size' = c.max_size
           /\ rng' = c.rng
    /\ call' = Call("reset", 0, 0, FALSE)
    /\ seen' = {}
    /\ result' = NoEstimate
    /\ UNCHANGED <<inserted, pos, ref, order>>

NextWithinCapacity ==
    \/ \E t \in Tokens, u \in Draws : AddSeenToken(t, u)
    \/ ResetRun

SpecWithinCapacity == InitWithinCapacity /\ [][NextWithinCapacity]_vars

----------------------------------------------------------------------------
(* test::insufficient_space_works: the 12-word sentence with capacity 10   *)

\* "This was a triumph I am making a note here huge success", each word given
\* as its rank in the String order of the 11 distinct words:
\* I < This < a < am < here < huge < making < note < success < triumph < was.
Sentence == <<2, 11, 3, 10, 1, 4, 7, 3, 8, 5, 6, 9>>

SentenceCapacity == 10

\* The draws tried for each word, in units of 1/Resolution.
SentenceDraws == 0..MaxSentenceDraw

InitSentence ==
    LET c == CountUnique_new(SentenceCapacity) IN
    /\ treap = c.treap
    /\ p = c.p
    /\ max_size = c.max_size
    /\ rng = 0
    /\ result = NoEstimate
    /\ inserted = {}
    /\ seen = {}
    /\ pos = 1
    /\ ref = <<>>
    /\ order = <<>>
    /\ call = [op |-> "new", value |-> SentenceCapacity, priority |-> 0,
               pre |-> Treap_new, pre_p |-> One,
               pre_max_size |-> SentenceCapacity, pre_rng |-> 0,
               panic |-> c.panic]

\* ctr.reset() at the start of each of the RUNS trials.
SentenceReset ==
    /\ ~call.panic
    /\ call.op = "new" \/ pos > Len(Sentence)
    /\ LET c == CountUnique_reset(CountUnique)
       IN  /\ treap' = c.treap
           /\ p' = c.p
           /\ max_size' = c.max_size
           /\ rng' = c.rng
    /\ call' = Call("reset", 0, 0, FALSE)
    /\ pos' = 1
    /\ result' = NoEstimate
    /\ UNCHANGED <<inserted, seen, ref, order>>

\* ctr.add_token of the next word of the sentence.
SentenceToken(u) ==
    /\ ~call.panic
    /\ call.op # "new"
    /\ pos <= Len(Sentence)
    /\ LET c == add_token(CountUnique, Sentence[pos], u)
       IN  /\ treap' = c.treap
           /\ p' = c.p
           /\ max_size' = c.max_size
           /\ rng' = Rng_gen(rng)
           /\ call' = Call("add_token", Sentence[pos], u, c.panic)
    /\ pos' = pos + 1
    /\ result' = NoEstimate
    /\ UNCHANGED <<inserted, seen, ref, order>>

NextSentence ==
    \/ \E u \in SentenceDraws : SentenceToken(u)
    \/ SentenceReset

SpecSentence == InitSentence /\ [][NextSentence]_vars

----------------------------------------------------------------------------
(* What is stored in a tree                                                *)

RECURSIVE Elements(_)

\* The set of elements held by the nodes reachable from an optional node.
Elements(o) ==
    IF o = None THEN {}
    ELSE {unwrap(o).element} \cup Elements(unwrap(o).left) \cup Elements(unwrap(o).right)

RECURSIVE NodeCount(_)

\* The number of nodes reachable from an optional node.
NodeCount(o) ==
    IF o = None THEN 0
    ELSE 1 + NodeCount(unwrap(o).left) + NodeCount(unwrap(o).right)

StoredValues(o) == {e.value : e \in Elements(o)}

RECURSIVE IsBST(_)

IsBST(o) ==
    IF o = None THEN TRUE
    ELSE LET n == unwrap(o)
         IN  /\ \A v \in StoredValues(n.left) : v < n.element.value
             /\ \A v \in StoredValues(n.right) : v > n.element.value
             /\ IsBST(n.left)
             /\ IsBST(n.right)

\* get(v) gives the same answer in two treaps for every value but `except`.
SameOthers(t1, t2, except) ==
    \A w \in Values \ {except} : Treap_get(t1, w) = Treap_get(t2, w)

----------------------------------------------------------------------------
(* Claims about the treap                                                  *)

\* C1: after any sequence of insert, delete and reset, every reachable node
\* has only smaller values in its left subtree and only greater values in its
\* right subtree.
C1_BstInvariant == IsBST(treap.root)

C1_Witness ==
    /\ call.op = "delete"
    /\ NodeCount(treap.root) >= 3
    /\ unwrap(treap.root).left # None
    /\ unwrap(treap.root).right # None

\* C2: after any sequence of insert, delete and reset, every node's priority
\* is at least the priority of each of its children (maintains_heap).
C2_HeapInvariant == Treap_maintains_heap(treap)

C2_Witness ==
    /\ call.op = "insert"
    /\ NodeCount(call.pre.root) >= 2
    /\ NodeCount(treap.root) >= 3
    /\ unwrap(treap.root).element = Element_new(call.value, call.priority)

\* C3: size() equals the number of nodes reachable from the root after any
\* sequence of insert, delete and reset.
C3_SizeIsNodeCount == Treap_size(treap) = NodeCount(treap.root)

\* C4: get_max() returns nothing on an empty treap, and otherwise a stored
\* element whose priority is at least the priority of every stored element.
C4_MaxCorrect ==
    LET m == Treap_get_max(treap) IN
    IF Elements(treap.root) = {}
    THEN m = None
    ELSE /\ m # None
         /\ unwrap(m) \in Elements(treap.root)
         /\ \A e \in Elements(treap.root) : e.priority <= unwrap(m).priority

C4_Witness ==
    /\ call.op = "delete"
    /\ call.pre.root # None
    /\ unwrap(call.pre.root).element.value = call.value
    /\ NodeCount(treap.root) >= 3
    /\ \E e \in Elements(treap.root) : e.priority < unwrap(Treap_get_max(treap)).priority

\* C7: insert of an element whose value is already stored creates no node,
\* leaves size() unchanged, makes get(value) return the new priority and
\* leaves every other stored element reachable with its priority unchanged.
C7_ReplaceInPlace ==
    (call.op = "insert" /\ Treap_get(call.pre, call.value) # None) =>
        /\ NodeCount(treap.root) = NodeCount(call.pre.root)
        /\ Treap_size(treap) = Treap_size(call.pre)
        /\ Treap_get(treap, call.value) = Some(Element_new(call.value, call.priority))
        /\ SameOthers(treap, call.pre, call.value)

\* C8: delete(v) of a stored value removes exactly that element: get(v)
\* returns nothing, size() is one less, every other element is unchanged and
\* the heap invariant holds.
C8_DeletePresent ==
    (call.op = "delete" /\ Treap_get(call.pre, call.value) # None) =>
        /\ ~call.panic
        /\ Treap_get(treap, call.value) = None
        /\ Treap_size(treap) = Treap_size(call.pre) - 1
        /\ SameOthers(treap, call.pre, call.value)
        /\ Treap_maintains_heap(treap)

\* C9: delete(v) of a value that is not stored returns without panicking and
\* leaves the tree structure, the elements and size() unchanged.
C9_DeleteAbsent ==
    (call.op = "delete" /\ Treap_get(call.pre, call.value) = None) =>
        /\ ~call.panic
        /\ treap = call.pre

C9_Witness ==
    /\ call.op = "delete"
    /\ Treap_get(call.pre, call.value) = None
    /\ NodeCount(call.pre.root) >= 3
    /\ ~call.panic

\* C10: after inserting elements with pairwise distinct values into an empty
\* treap, get(v) returns each inserted value with the priority it was inserted
\* with, and nothing for a value that was never inserted.
C10_RoundTrip ==
    \A v \in Values :
        IF \E e \in inserted : e.value = v
        THEN \E e \in inserted : e.value = v /\ Treap_get(treap, v) = Some(e)
        ELSE Treap_get(treap, v) = None

C10_Witness ==
    /\ Cardinality(inserted) >= 3
    /\ \E v \in Values : v \notin {e.value : e \in inserted}
    /\ unwrap(treap.root).left # None
    /\ unwrap(treap.root).right # None
    /\ Treap_get(treap, call.value) = Some(Element_new(call.value, call.priority))

\* C11: insert of a value that is not stored increases size() by exactly 1
\* and keeps the heap invariant; with a priority above the previous maximum
\* get_max() returns the new element, with a priority below it get_max()
\* still reports the previous maximum priority.
C11_InsertNew ==
    (call.op = "insert" /\ Treap_get(call.pre, call.value) = None) =>
        LET old == Treap_get_max(call.pre)
            new == Treap_get_max(treap)
        IN  /\ Treap_size(treap) = Treap_size(call.pre) + 1
            /\ Treap_maintains_heap(treap)
            /\ new # None
            /\ (old # None /\ call.priority > unwrap(old).priority) =>
                   unwrap(new) = Element_new(call.value, call.priority)
            /\ (old # None /\ call.priority < unwrap(old).priority) =>
                   unwrap(new).priority = unwrap(old).priority

C11_Witness ==
    /\ call.op = "insert"
    /\ Treap_get(call.pre, call.value) = None
    /\ NodeCount(call.pre.root) >= 3
    /\ call.priority > unwrap(Treap_get_max(call.pre)).priority
    /\ Treap_get_max(treap) = Some(Element_new(call.value, call.priority))

\* C12: the public delete(v) never calls TreapNode::delete on a node whose own
\* value is v, so the panic of its Equal branch is never reached.
C12_DeleteNeverPanics == call.op = "delete" => ~call.panic

C12_Witness ==
    /\ call.op = "delete"
    /\ ~call.panic
    /\ call.pre.root # None
    /\ unwrap(call.pre.root).element.value = call.value
    /\ unwrap(call.pre.root).left # None
    /\ unwrap(call.pre.root).right # None
    /\ Treap_get(treap, call.value) = None

\* The empty treap as seen through the public API.
IsEmptyTreap(t) ==
    /\ Treap_size(t) = 0
    /\ Treap_get_max(t) = None
    /\ \A v \in Values : Treap_get(t, v) = None

\* C13: a new treap and a treap after reset() are empty (size() 0, get_max()
\* and every get(v) return nothing), and so is a treap whose only stored
\* element was deleted.
C13_EmptyTreap ==
    /\ call.op \in {"new", "reset"} => IsEmptyTreap(treap)
    /\ (call.op = "delete" /\ NodeCount(call.pre.root) = 1
          /\ Treap_get(call.pre, call.value) # None) => IsEmptyTreap(treap)

C13_Witness ==
    /\ call.op = "reset"
    /\ NodeCount(call.pre.root) >= 3
    /\ Treap_size(call.pre) >= 3
    /\ IsEmptyTreap(treap)

----------------------------------------------------------------------------
(* Claims about the estimator                                              *)

\* C5: the reservoir never holds more than max_size elements: after every
\* add_token, for every token and draw, treap.size() <= max_size.
C5_ReservoirBound ==
    ~call.panic =>
        /\ Treap_size(treap) <= max_size
        /\ NodeCount(treap.root) <= max_size

C5_Witness ==
    /\ call.op = "add_token"
    /\ max_size >= 2
    /\ Treap_size(call.pre) = max_size
    /\ Treap_get(call.pre, call.value) = None
    /\ Treap_get(treap, call.value) # None
    /\ Treap_size(treap) = max_size

\* C6: within a run the threshold p never grows: p after an add_token call is
\* at most p before the call, for every token and draw.
C6_ThresholdNonIncreasing ==
    call.op = "add_token" => p <= call.pre_p

C6_Witness ==
    /\ call.op = "add_token"
    /\ call.pre_p < One
    /\ p < call.pre_p

RECURSIVE CountValue(_, _)

\* The number of nodes reachable from an optional node that hold value v.
CountValue(o, v) ==
    IF o = None THEN 0
    ELSE (IF unwrap(o).element.value = v THEN 1 ELSE 0)
         + CountValue(unwrap(o).left, v) + CountValue(unwrap(o).right, v)

\* get(w) gives the same answer in two reservoirs for every token outside `except`.
SameTokens(t1, t2, except) ==
    \A w \in Tokens \ except : Treap_get(t1, w) = Treap_get(t2, w)

\* The reservoir of the last add_token call after its stale entry was removed.
AfterStaleRemoval == Treap_delete(call.pre, call.value).treap

\* The last add_token call reached the reservoir-full branch.
ReachedFullBranch ==
    /\ call.op = "add_token"
    /\ call.priority < call.pre_p
    /\ Treap_size(AfterStaleRemoval) >= max_size

\* C14: add_token(t) with a draw u >= p (u = p included) discards the token:
\* no entry for t is left, every other entry is unchanged, p is unchanged.
C14_Discard ==
    (call.op = "add_token" /\ call.priority >= call.pre_p) =>
        /\ ~call.panic
        /\ Treap_get(treap, call.value) = None
        /\ CountValue(treap.root, call.value) = 0
        /\ SameTokens(treap, call.pre, {call.value})
        /\ p = call.pre_p

C14_Witness ==
    /\ call.op = "add_token"
    /\ call.priority = call.pre_p
    /\ Treap_get(call.pre, call.value) # None
    /\ NodeCount(call.pre.root) >= 2
    /\ Treap_get(treap, call.value) = None

\* C15: add_token(t) with a draw u < p, when fewer than max_size elements are
\* held after the stale entry for t was removed, inserts (t, u): exactly one
\* entry for t, with priority u, every other entry and p unchanged.
C15_Admit ==
    (call.op = "add_token" /\ call.priority < call.pre_p
       /\ Treap_size(AfterStaleRemoval) < max_size) =>
        /\ ~call.panic
        /\ Treap_get(treap, call.value) = Some(Element_new(call.value, call.priority))
        /\ CountValue(treap.root, call.value) = 1
        /\ SameTokens(treap, call.pre, {call.value})
        /\ Treap_size(treap) = Treap_size(AfterStaleRemoval) + 1
        /\ p = call.pre_p

C15_Witness ==
    /\ call.op = "add_token"
    /\ call.priority < call.pre_p
    /\ Treap_size(call.pre) = max_size
    /\ max_size >= 2
    /\ Treap_get(call.pre, call.value) # None
    /\ Treap_get(call.pre, call.value) # Treap_get(treap, call.value)
    /\ Treap_get(treap, call.value) = Some(Element_new(call.value, call.priority))

\* C16: add_token(t) with a draw u < p, when the reservoir is full and the
\* priority of its maximum is greater than u, does not insert t: the
\* reservoir is unchanged, t is not in it, and p becomes u.
C16_Shrink ==
    (ReachedFullBranch /\ Treap_get_max(AfterStaleRemoval) # None
       /\ unwrap(Treap_get_max(AfterStaleRemoval)).priority > call.priority) =>
        /\ ~call.panic
        /\ Elements(treap.root) = Elements(call.pre.root)
        /\ NodeCount(treap.root) = NodeCount(call.pre.root)
        /\ Treap_size(treap) = Treap_size(call.pre)
        /\ Treap_get(treap, call.value) = None
        /\ p = call.priority

C16_Witness ==
    /\ ReachedFullBranch
    /\ max_size >= 2
    /\ unwrap(Treap_get_max(AfterStaleRemoval)).priority > call.priority
    /\ p = call.priority
    /\ call.pre_p < One

\* C17: add_token(t) with a draw u < p, when the reservoir is full and the
\* priority m_priority of its maximum is at most u, evicts that maximum,
\* inserts (t, u), sets p to m_priority, keeps size() at max_size and leaves
\* every other entry unchanged.
C17_Evict ==
    (ReachedFullBranch /\ Treap_get_max(AfterStaleRemoval) # None
       /\ unwrap(Treap_get_max(AfterStaleRemoval)).priority <= call.priority) =>
        LET m == unwrap(Treap_get_max(AfterStaleRemoval)) IN
        /\ ~call.panic
        /\ Treap_get(treap, m.value) = None
        /\ Treap_get(treap, call.value) = Some(Element_new(call.value, call.priority))
        /\ CountValue(treap.root, call.value) = 1
        /\ p = m.priority
        /\ Treap_size(treap) = max_size
        /\ NodeCount(treap.root) = max_size
        /\ SameTokens(treap, call.pre, {call.value, m.value})

C17_Witness ==
    /\ ReachedFullBranch
    /\ max_size >= 2
    /\ unwrap(Treap_get_max(AfterStaleRemoval)).priority < call.priority
    /\ Treap_get(treap, call.value) = Some(Element_new(call.value, call.priority))
    /\ p = unwrap(Treap_get_max(AfterStaleRemoval)).priority

\* C18: after add_token(t) with draw u the reservoir holds at most one entry
\* for t, and if it holds one its priority is the u of that call.
C18_NoStaleEntry ==
    call.op = "add_token" =>
        /\ CountValue(treap.root, call.value) <= 1
        /\ \A e \in Elements(treap.root) :
               e.value = call.value => e.priority = call.priority

C18_Witness ==
    /\ call.op = "add_token"
    /\ Treap_get(call.pre, call.value) # None
    /\ unwrap(Treap_get(call.pre, call.value)).priority # call.priority
    /\ Treap_get(treap, call.value) = Some(Element_new(call.value, call.priority))
    /\ NodeCount(treap.root) >= 2

\* An estimate that is a number greater than zero (+infinity included).
IsPositive(est) ==
    \/ est.kind = "inf"
    \/ est.kind = "finite" /\ est.num > 0 /\ est.den > 0

\* C19: while the stream of a run holds at most max_size distinct tokens,
\* every token is admitted, the reservoir-full branch is never taken, p stays
\* 1.0, the reservoir holds exactly the distinct tokens seen so far and
\* estimate() is exactly their number.
C19_SufficientSpace ==
    (~call.panic /\ Cardinality(seen) <= max_size) =>
        LET est == CountUnique_estimate(CountUnique) IN
        /\ p = One
        /\ ~ReachedFullBranch
        /\ call.op = "add_token" =>
               Treap_get(treap, call.value) = Some(Element_new(call.value, call.priority))
        /\ StoredValues(treap.root) = seen
        /\ NodeCount(treap.root) = Cardinality(seen)
        /\ Treap_size(treap) = Cardinality(seen)
        /\ est.ok
        /\ est.kind = "finite"
        /\ est.num = Cardinality(seen) * est.den

C19_Witness ==
    /\ call.op = "add_token"
    /\ max_size >= 2
    /\ Cardinality(seen) = max_size
    /\ Treap_get(call.pre, call.value) # None
    /\ Treap_size(call.pre) = max_size
    /\ Treap_size(treap) = max_size

\* C20: with capacity 10, after reset() and the whole 12-word sentence (11
\* distinct words), for every sequence of draws the reservoir holds between 1
\* and 10 elements, p <= 1.0, and estimate() is size / p and greater than 0.
C20_InsufficientSpace ==
    (pos > Len(Sentence)) =>
        LET est == CountUnique_estimate(CountUnique) IN
        /\ ~call.panic
        /\ Treap_size(treap) >= 1
        /\ Treap_size(treap) <= SentenceCapacity
        /\ NodeCount(treap.root) = Treap_size(treap)
        /\ p <= One
        /\ est.ok
        /\ est.kind = "finite" => est.num * p = Treap_size(treap) * One * est.den
        /\ est.kind = "finite" <=> p > 0
        /\ IsPositive(est)

C20_Witness ==
    /\ pos > Len(Sentence)
    /\ call.op = "add_token"
    /\ Treap_size(treap) = SentenceCapacity
    /\ p > 0
    /\ p < One
    /\ Treap_get(treap, call.value) # None

----------------------------------------------------------------------------
(* estimate                                                                *)

\* The value r is the f64 quotient of n by the threshold pp (in units of
\* 1/Resolution): finite and equal to n / pp, +infinity or NaN.
IsQuotient(r, n, pp) ==
    /\ r.ok
    /\ pp > 0 => r.kind = "finite" /\ r.den > 0 /\ r.num * pp = n * One * r.den
    /\ pp = 0 /\ n > 0 => r.kind = "inf"
    /\ pp = 0 /\ n = 0 => r.kind = "nan"

\* C21: estimate() succeeds with the reservoir size divided by the threshold
\* p, leaves the reservoir, p, max_size and the random source as they were,
\* and leaves the estimator able to take further calls: the call does not
\* panic, every add_token that may follow runs through, and a second
\* estimate() returns the same value.
C21_EstimateReadOnly ==
    call.op = "estimate" =>
        /\ IsQuotient(result, NodeCount(call.pre.root), call.pre_p)
        /\ treap = call.pre
        /\ p = call.pre_p
        /\ max_size = call.pre_max_size
        /\ rng = call.pre_rng
        /\ ~call.panic
        /\ \A t \in Tokens, u \in Draws : ~add_token(CountUnique, t, u).panic
        /\ CountUnique_estimate(CountUnique) = result

\* estimate() in the middle of a run, after the threshold has shrunk.
C21_Witness ==
    /\ call.op = "estimate"
    /\ treap.size = 2
    /\ 0 < p /\ p < One
    /\ result.kind = "finite"
    /\ rng # 0

----------------------------------------------------------------------------
(* new and reset                                                           *)

\* C22: right after a successful new() and right after every reset() the
\* reservoir is empty, p is 1.0 and estimate() would return 0.0.
C22_FreshState ==
    (call.op \in {"new", "reset"} /\ ~call.panic) =>
        /\ IsEmptyTreap(treap)
        /\ NodeCount(treap.root) = 0
        /\ p = One
        /\ LET r == CountUnique_estimate(CountUnique) IN
           r.ok /\ r.kind = "finite" /\ r.num = 0 /\ r.den > 0

\* A reset of an estimator whose reservoir was filled and whose threshold
\* had shrunk.
C22_Witness ==
    /\ call.op = "reset"
    /\ call.pre.size = max_size
    /\ call.pre.size >= 2
    /\ call.pre_p < One

----------------------------------------------------------------------------
(* Determinism of a run                                                    *)

\* C23: a run that starts from new() or from reset(), whatever preceded the
\* reset, ends with the same reservoir, the same p and the same estimate as
\* the run of a newly built estimator given the same tokens and draws.
C23_Deterministic ==
    /\ treap = ref.treap
    /\ p = ref.p
    /\ max_size = ref.max_size
    /\ CountUnique_estimate(CountUnique) = CountUnique_estimate(ref)

\* A run begun by resetting an estimator whose threshold had shrunk, itself
\* past a shrink of the threshold and with tokens in the reservoir.
C23_Witness ==
    /\ ref.shrunk
    /\ call.op = "add_token"
    /\ treap.size >= 1
    /\ p < One
    /\ p # call.pre_p

----------------------------------------------------------------------------
(* What no call changes                                                    *)

\* C24: max_size keeps the value given to new() through add_token, estimate
\* and reset, and reset() leaves the random source where the draws so far
\* have brought it.
C24_CapacityAndRngKept ==
    /\ call.op \in {"add_token", "estimate", "reset"} =>
           max_size = call.pre_max_size
    /\ call.op = "reset" => rng = call.pre_rng

\* A reset of an estimator whose reservoir was full, while the random source
\* is away from the start of its stream.
C24_Witness ==
    /\ call.op = "reset"
    /\ call.pre.size = max_size
    /\ call.pre_rng # 0
    /\ rng # 0

----------------------------------------------------------------------------
(* Construction                                                            *)

\* C25: new() panics exactly when the capacity asked for is below 1, a
\* panicked construction leaves no estimator to call, and every estimator
\* that exists has max_size >= 1.
C25_CapacityAtLeastOne ==
    /\ call.op = "new" => (call.panic <=> call.value < 1)
    /\ call.op = "new" /\ ~call.panic => max_size = call.value
    /\ call.panic => ~ENABLED NextCVM
    /\ ~call.panic => max_size >= 1

\* new() called with capacity 0.
C25_Witness ==
    /\ call.op = "new"
    /\ call.value = 0
    /\ call.panic

----------------------------------------------------------------------------
(* Deletion by promotion                                                   *)

RECURSIVE Subtrees(_)

\* Every node of the tree o, each with the subtree below it.
Subtrees(o) ==
    IF o = None THEN {}
    ELSE {unwrap(o)} \cup Subtrees(unwrap(o).left) \cup Subtrees(unwrap(o).right)

\* Whether deleting node n promotes its right child: the only child when n
\* has no left child, the strictly higher priority when n has two children.
PromotesRight(n) ==
    \/ n.left = None
    \/ /\ n.right # None
       /\ unwrap(n.left).element.priority < unwrap(n.right).element.priority

RECURSIVE PromoteUntilLeaf(_)

\* What takes the place of node n when n is deleted: the promoted child, with
\* n one level lower on the other side, again until n is a leaf and is
\* unlinked.
PromoteUntilLeaf(n) ==
    IF n.left = None /\ n.right = None THEN None
    ELSE IF PromotesRight(n)
    THEN LET q == unwrap(n.right)
         IN  Some([element |-> q.element,
                   left |-> PromoteUntilLeaf([n EXCEPT !.right = q.left]),
                   right |-> q.right])
    ELSE LET l == unwrap(n.left)
         IN  Some([element |-> l.element,
                   left |-> l.left,
                   right |-> PromoteUntilLeaf([n EXCEPT !.left = l.right])])

RECURSIVE RemoveByPromotion(_, _)

\* The tree o with the node holding value v, found by the value order,
\* replaced by PromoteUntilLeaf of that node.
RemoveByPromotion(o, v) ==
    IF o = None THEN None
    ELSE LET n == unwrap(o) IN
         IF n.element.value = v THEN PromoteUntilLeaf(n)
         ELSE IF v < n.element.value
         THEN Some([n EXCEPT !.left = RemoveByPromotion(n.left, v)])
         ELSE Some([n EXCEPT !.right = RemoveByPromotion(n.right, v)])

\* C27: delete replaces the target, at the root or deeper, by its promoted
\* child (the right child when the left one is absent or has strictly lower
\* priority, else the left child), pushes the target one level down and
\* repeats until the target is a leaf and is unlinked; the rest of the tree
\* is as it was.
C27_PromoteHigherChild ==
    (call.op = "delete" /\ ~call.panic) =>
        treap.root = RemoveByPromotion(call.pre.root, call.value)

\* A delete of a node below the root whose two children have equal priority.
C27_Witness ==
    /\ call.op = "delete"
    /\ \E n \in Subtrees(call.pre.root) :
           /\ n.element.value = call.value
           /\ n # unwrap(call.pre.root)
           /\ n.left # None /\ n.right # None
           /\ unwrap(n.left).element.priority = unwrap(n.right).element.priority
           /\ \E m \in Subtrees(treap.root) :
                  /\ m.element = unwrap(n.left).element
                  /\ m.right # None
                  /\ unwrap(m.right).element = unwrap(n.right).element

----------------------------------------------------------------------------
(* Termination of deletion                                                 *)

\* The child of node n on the given side.
ChildOf(n, child) == IF child = "Left" THEN n.left ELSE n.right

RECURSIVE DeleteCalls(_, _)

\* The calls delete_child(self, child) made, one inside the other, once
\* delete_child is called on self for a child that exists.
DeleteCalls(self, child) ==
    LET which == unwrap(ChildOf(self, child)) IN
    IF which.left = None /\ which.right = None
    THEN {<<self, child>>}
    ELSE LET s == delete_step(which)
         IN  {<<self, child>>} \cup DeleteCalls(s.node, s.child)

\* The rotation of one pass moves the target `which` one level down, to the
\* root of a subtree that is strictly smaller: the former subtree without
\* the promoted child and without that child's outer subtree.
TargetShrinks(which) ==
    LET s == delete_step(which)
        promoted == IF s.child = "Left" THEN unwrap(which.right)
                                        ELSE unwrap(which.left)
        outer == IF s.child = "Left" THEN promoted.right ELSE promoted.left
    IN  /\ ChildOf(s.node, s.child) # None
        /\ unwrap(ChildOf(s.node, s.child)).element = which.element
        /\ s.node.element = promoted.element
        /\ NodeCount(Some(s.node)) = NodeCount(Some(which))
        /\ NodeCount(ChildOf(s.node, s.child))
               = NodeCount(Some(which)) - 1 - NodeCount(outer)
        /\ NodeCount(ChildOf(s.node, s.child)) < NodeCount(Some(which))

\* delete_child(self, child) unlinks a target that is a leaf and otherwise
\* is the call on the rotated target, whose subtree has shrunk.
DeleteCallDescends(self, child) ==
    LET which == unwrap(ChildOf(self, child)) IN
    IF which.left = None /\ which.right = None
    THEN delete_child(self, child)
             = IF child = "Left" THEN [self EXCEPT !.left = None]
                                 ELSE [self EXCEPT !.right = None]
    ELSE LET s == delete_step(which) IN
         /\ TargetShrinks(which)
         /\ delete_child(self, child)
                = IF child = "Left"
                  THEN [self EXCEPT !.left = Some(delete_child(s.node, s.child))]
                  ELSE [self EXCEPT !.right = Some(delete_child(s.node, s.child))]

\* C28: Treap.delete returns for every value on every reachable treap, and
\* every rotation it performs, at the root or below, leaves the target at the
\* root of a strictly smaller subtree, down to a leaf that is unlinked.
C28_DeleteTerminates ==
    /\ \A v \in Values :
           LET d == Treap_delete(treap, v)
           IN  ~d.panic /\ NodeCount(d.treap.root) <= NodeCount(treap.root)
    /\ \A self \in Subtrees(treap.root) : \A child \in {"Left", "Right"} :
           ChildOf(self, child) # None =>
               \A c \in DeleteCalls(self, child) : DeleteCallDescends(c[1], c[2])
    /\ treap.root # None =>
           LET r == unwrap(treap.root) IN
           (r.left # None \/ r.right # None) =>
               LET s == delete_step(r) IN
               /\ TargetShrinks(r)
               /\ Treap_delete(treap, r.element.value).treap.root
                      = Some(delete_child(s.node, s.child))
               /\ \A c \in DeleteCalls(s.node, s.child) :
                      DeleteCallDescends(c[1], c[2])

\* A delete of a root with two children in which the target is rotated down
\* at least twice before it is a leaf.
C28_Witness ==
    /\ call.op = "delete"
    /\ call.pre.root # None
    /\ LET r == unwrap(call.pre.root) IN
       /\ r.element.value = call.value
       /\ r.left # None /\ r.right # None
       /\ Cardinality(DeleteCalls(delete_step(r).node, delete_step(r).child)) >= 2
    /\ NodeCount(treap.root) = NodeCount(call.pre.root) - 1

----------------------------------------------------------------------------
(* Rotations                                                               *)

RECURSIVE InOrder(_)

\* The elements of the tree o from left to right.
InOrder(o) ==
    IF o = None THEN <<>>
    ELSE InOrder(unwrap(o).left) \o <<unwrap(o).element>> \o InOrder(unwrap(o).right)

\* rotate_right of n: the left child on top, n as its right child, the
\* child's right subtree as the left subtree of n; n itself without a left
\* child.
IsRightRotation(n, r) ==
    IF n.left = None THEN r = n
    ELSE LET l == unwrap(n.left) IN
         /\ r.element = l.element
         /\ r.left = l.left
         /\ r.right # None
         /\ unwrap(r.right).element = n.element
         /\ unwrap(r.right).left = l.right
         /\ unwrap(r.right).right = n.right

\* rotate_left of n, the mirror image.
IsLeftRotation(n, r) ==
    IF n.right = None THEN r = n
    ELSE LET q == unwrap(n.right) IN
         /\ r.element = q.element
         /\ r.right = q.right
         /\ r.left # None
         /\ unwrap(r.left).element = n.element
         /\ unwrap(r.left).right = q.left
         /\ unwrap(r.left).left = n.left

\* The nodes the rotations are tried on: the nodes of the treap and what
\* one rotation makes of them.
RotationInputs ==
    LET nodes == Subtrees(treap.root)
    IN  nodes \cup {rotate_right(n) : n \in nodes}
              \cup {rotate_left(n) : n \in nodes}

----------------------------------------------------------------------------
(* The order of elements                                                   *)

\* a is below b by priority, or by value when the priorities are equal.
PriorityThenValue(a, b) ==
    \/ a.priority < b.priority
    \/ a.priority = b.priority /\ a.value < b.value

\* C30: comparing elements is a total order decided by priority first and by
\* value on equal priorities: a < b exactly when PriorityThenValue(a, b),
\* b > a then, the order is transitive, and a equals b, by eq and by cmp,
\* exactly when value and priority are both equal.
C30_ElementOrder ==
    /\ order.ab \in {"Less", "Equal", "Greater"}
    /\ order.ab = "Less" <=> PriorityThenValue(order.a, order.b)
    /\ order.ab = "Greater" <=> PriorityThenValue(order.b, order.a)
    /\ order.ab = "Less" <=> order.ba = "Greater"
    /\ order.ab = "Equal" <=> order.ba = "Equal"
    /\ order.ab = "Less" /\ order.bc = "Less" => order.ac = "Less"
    /\ order.ab # "Greater" /\ order.bc # "Greater" => order.ac # "Greater"
    /\ order.eq_ab <=> (order.a.value = order.b.value
                        /\ order.a.priority = order.b.priority)
    /\ order.eq_ab <=> order.ab = "Equal"
    /\ order.eq_ab <=> order.eq_ba
    /\ order.partial_ab = Some(order.ab)
    /\ order.unwrap_ab = order.ab

\* a has the lower priority and the higher value and compares below b; b and
\* c have the same priority and are told apart by their values.
C30_Witness ==
    /\ order.a.priority < order.b.priority
    /\ order.a.value > order.b.value
    /\ order.ab = "Less"
    /\ order.b.priority = order.c.priority
    /\ order.b.value < order.c.value
    /\ order.bc = "Less"
    /\ order.ac = "Less"
    /\ ~order.eq_ab

----------------------------------------------------------------------------
(* The inserts issued by add_token                                         *)

\* The last add_token call went on to insert its token: the draw was below
\* the threshold and there was room, or the maximum was evicted.
IssuedInsert ==
    /\ call.op = "add_token"
    /\ call.priority < call.pre_p
    /\ \/ Treap_size(AfterStaleRemoval) < max_size
       \/ /\ Treap_get_max(AfterStaleRemoval) # None
          /\ ~(unwrap(Treap_get_max(AfterStaleRemoval)).priority > call.priority)

\* The treap handed to that insert.
InsertReceiver ==
    IF Treap_size(AfterStaleRemoval) < max_size
    THEN AfterStaleRemoval
    ELSE Treap_delete(AfterStaleRemoval,
                      unwrap(Treap_get_max(AfterStaleRemoval)).value).treap

\* C31: every insert issued by add_token inserts a value that is not stored
\* at that moment (an evicted maximum is another token), so the insert
\* creates a node and never replaces one, no token is stored twice, and
\* size() equals the node count in every state of a run.
C31_InsertsAreFresh ==
    /\ Treap_size(treap) = NodeCount(treap.root)
    /\ \A t \in Tokens : CountValue(treap.root, t) <= 1
    /\ IssuedInsert =>
           /\ Treap_get(InsertReceiver, call.value) = None
           /\ CountValue(InsertReceiver.root, call.value) = 0
           /\ Treap_size(AfterStaleRemoval) >= max_size =>
                  unwrap(Treap_get_max(AfterStaleRemoval)).value # call.value
           /\ \/ InsertReceiver.root = None
              \/ insert_or_replace(unwrap(InsertReceiver.root),
                                   TreapNode_from(Element_new(call.value,
                                                              call.priority))).r
           /\ treap = Treap_insert(InsertReceiver,
                                   Element_new(call.value, call.priority))
           /\ Treap_size(treap) = Treap_size(InsertReceiver) + 1

\* add_token of a token that is stored, with a draw below the threshold: the
\* token is stored again under the new draw.
C31_Witness ==
    /\ IssuedInsert
    /\ Treap_get(call.pre, call.value) # None
    /\ unwrap(Treap_get(call.pre, call.value)).priority # call.priority
    /\ Treap_get(treap, call.value) = Some(Element_new(call.value, call.priority))
    /\ Treap_size(treap) >= 2

----------------------------------------------------------------------------
(* The reservoir-full branch                                               *)

\* C32: no add_token call panics, and whenever a call reaches the
\* reservoir-full branch the treap it asks for the maximum is not empty, so
\* get_max().unwrap() has a value to return.
C32_GetMaxNeverPanics ==
    /\ call.op = "add_token" => ~call.panic
    /\ ReachedFullBranch =>
           /\ Treap_get_max(AfterStaleRemoval) # None
           /\ NodeCount(AfterStaleRemoval.root) >= 1
           /\ max_size >= 1

\* The full branch reached on an estimator of capacity 1, whose reservoir
\* holds a single element.
C32_Witness ==
    /\ ReachedFullBranch
    /\ max_size = 1
    /\ NodeCount(AfterStaleRemoval.root) = 1
    /\ ~call.panic

----------------------------------------------------------------------------
(* Stored priorities and the threshold                                     *)

\* C33: after every add_token every element held in the reservoir has a
\* priority strictly below the threshold p.
C33_PrioritiesBelowThreshold ==
    call.op = "add_token" =>
        \A e \in Elements(treap.root) : e.priority < p

\* C34: after any sequence of add_token calls the threshold is strictly
\* positive and at most 1.0, and estimate() returns a finite value.
C34_ThresholdPositive ==
    ~call.panic =>
        /\ 0 < p
        /\ p <= One
        /\ CountUnique_estimate(CountUnique).kind = "finite"

----------------------------------------------------------------------------
(* Runs of pairwise distinct tokens                                        *)

\* The tokens stored before the last call that are no longer stored.
Departed ==
    {w \in Tokens : Treap_get(call.pre, w) # None /\ Treap_get(treap, w) = None}

\* C35: in a run of pairwise distinct tokens a stored element leaves only as
\* the evicted maximum of the add_token call that stores its replacement, so
\* the reservoir size does not decrease from one add_token to the next and
\* is at least 1 once the run has been given a token.
C35_DistinctRunKeepsSize ==
    /\ call.op = "add_token" =>
           /\ Treap_size(treap) >= Treap_size(call.pre)
           /\ NodeCount(treap.root) >= NodeCount(call.pre.root)
           /\ Cardinality(Departed) <= 1
           /\ \A w \in Departed :
                  /\ Treap_get_max(call.pre) # None
                  /\ unwrap(Treap_get_max(call.pre)).value = w
                  /\ Treap_get(treap, call.value)
                         = Some(Element_new(call.value, call.priority))
                  /\ Treap_size(treap) = Treap_size(call.pre)
    /\ seen # {} => Treap_size(treap) >= 1 /\ NodeCount(treap.root) >= 1

\* An add_token on a full reservoir of two that evicts the maximum and
\* stores the new token in its place.
C35_Witness ==
    /\ call.op = "add_token"
    /\ Cardinality(seen) = 3
    /\ Cardinality(Departed) = 1
    /\ Treap_size(treap) = 2
    /\ Treap_get(treap, call.value) # None

====
